---- MODULE Spec2Model ----
(***************************************************************************)
(* The module resolver of toyserver (src/unnamed/part_000, the file the    *)
(* sources import as './resolver'), with the optimizer cache locator       *)
(* (src/src/node/optimizer/index.ts) and the plugin merge of               *)
(* src/src/node/config.ts.                                                 *)
(*                                                                         *)
(* Paths and requests are strings, handled character by character as the   *)
(* JavaScript does (startsWith, slice, regular expressions) and through    *)
(* Node's POSIX path functions (join, resolve, relative, dirname).  The    *)
(* platform is POSIX: isWin is false and pathSeparator is "/".             *)
(***************************************************************************)
EXTENDS Naturals, Sequences, FiniteSets, TLC

(***************************************************************************)
(* JavaScript string primitives.                                           *)
(***************************************************************************)
NONE == "<undefined>"

CharAt(s, i) == SubSeq(s, i, i)

StartsWith(s, pre) == Len(pre) <= Len(s) /\ SubSeq(s, 1, Len(pre)) = pre

EndsWith(s, suf) ==
    Len(suf) <= Len(s) /\ SubSeq(s, Len(s) - Len(suf) + 1, Len(s)) = suf

\* s.slice(n)
Slice(s, n) == SubSeq(s, n + 1, Len(s))

\* 1-based position of the first occurrence of the character c, 0 if none
RECURSIVE IndexFrom(_, _, _)
IndexFrom(s, c, i) ==
    IF i > Len(s) THEN 0
    ELSE IF CharAt(s, i) = c THEN i
    ELSE IndexFrom(s, c, i + 1)

IndexOf(s, c) == IndexFrom(s, c, 1)

\* s.split(c), with i the position of the first c in s
RECURSIVE SplitAt(_, _, _)
SplitAt(s, c, i) ==
    IF i = 0 THEN <<s>>
    ELSE <<SubSeq(s, 1, i - 1)>>
         \o SplitAt(Slice(s, i), c, IndexFrom(Slice(s, i), c, 1))

Split(s, c) == SplitAt(s, c, IndexOf(s, c))

\* segs.join(sep)
RECURSIVE JoinWith(_, _)
JoinWith(segs, sep) ==
    IF Len(segs) = 0 THEN ""
    ELSE IF Len(segs) = 1 THEN segs[1]
    ELSE segs[1] \o sep \o JoinWith(Tail(segs), sep)

\* segs.filter(Boolean): the empty string is falsy
RECURSIVE FilterNonEmpty(_)
FilterNonEmpty(segs) ==
    IF Len(segs) = 0 THEN <<>>
    ELSE (IF segs[1] = "" THEN <<>> ELSE <<segs[1]>>)
         \o FilterNonEmpty(Tail(segs))

\* the part of s from position i on, '' when i is 0
FromPos(s, i) == IF i = 0 THEN "" ELSE Slice(s, i - 1)

\* the part of s before position i, s when i is 0
BeforePos(s, i) == IF i = 0 THEN s ELSE SubSeq(s, 1, i - 1)

\* s.match(/\?.*$/): the match, or '' as the callers default it
QueryOf(s) == FromPos(s, IndexOf(s, "?"))

\* s.replace(/X.*$/, '') for a single character X
CutAt(s, c) == BeforePos(s, IndexOf(s, c))

\* slash(p): backslashes become forward slashes
RECURSIVE slash(_)
slash(s) ==
    IF Len(s) = 0 THEN ""
    ELSE (IF CharAt(s, 1) = "\\" THEN "/" ELSE CharAt(s, 1)) \o slash(Slice(s, 1))

\* cleanUrl of './utils': url.replace(hashRE, '').replace(queryRE, '')
cleanUrl(url) == CutAt(CutAt(url, "#"), "?")

(***************************************************************************)
(* Node's path module, POSIX flavour.                                      *)
(***************************************************************************)
isAbsolute(p) == StartsWith(p, "/")

\* normalizeString: drops '' and '.', resolves '..'
RECURSIVE NormSegs(_, _, _)
NormSegs(segs, acc, allowAboveRoot) ==
    IF Len(segs) = 0 THEN acc
    ELSE IF segs[1] = "" \/ segs[1] = "."
    THEN NormSegs(Tail(segs), acc, allowAboveRoot)
    ELSE NormSegs(Tail(segs),
           IF segs[1] # ".." THEN Append(acc, segs[1])
           ELSE IF Len(acc) > 0 /\ acc[Len(acc)] # ".."
           THEN SubSeq(acc, 1, Len(acc) - 1)
           ELSE IF allowAboveRoot THEN Append(acc, "..")
           ELSE acc,
           allowAboveRoot)

\* path.normalize of a non-empty p whose normalized segments join to body
NormalizeJoined(p, body) ==
    (IF isAbsolute(p) THEN "/" ELSE "")
    \o (IF Len(body) = 0 /\ ~isAbsolute(p) THEN "." ELSE body)
    \o (IF EndsWith(p, "/") /\ (Len(body) > 0 \/ ~isAbsolute(p)) THEN "/" ELSE "")

\* path.normalize
normalize(p) ==
    IF Len(p) = 0 THEN "."
    ELSE NormalizeJoined(p, JoinWith(NormSegs(Split(p, "/"), <<>>, ~isAbsolute(p)), "/"))

\* path.join(a, b): empty arguments are skipped
join(a, b) ==
    normalize(IF Len(a) = 0 THEN b
              ELSE IF Len(b) = 0 THEN a
              ELSE a \o "/" \o b)

\* path.resolve(a, b) for an absolute a: no trailing slash in the result
resolve(a, b) ==
    "/" \o JoinWith(NormSegs(Split(IF isAbsolute(b) THEN b
                                   ELSE IF Len(b) = 0 THEN a
                                   ELSE a \o "/" \o b, "/"),
                             <<>>, FALSE), "/")

\* path.dirname
RECURSIVE DirnameEnd(_, _, _)
DirnameEnd(p, i, matchedSlash) ==
    \* i is the 1-based position scanned, down to the second character
    IF i < 2 THEN 0
    ELSE IF CharAt(p, i) = "/"
         THEN IF ~matchedSlash THEN i ELSE DirnameEnd(p, i - 1, matchedSlash)
         ELSE DirnameEnd(p, i - 1, FALSE)

\* path.dirname of a non-empty p whose directory part ends before end
DirnameUpTo(p, end) ==
    IF end = 0 THEN (IF CharAt(p, 1) = "/" THEN "/" ELSE ".")
    ELSE IF CharAt(p, 1) = "/" /\ end = 2 THEN "//"
    ELSE SubSeq(p, 1, end - 1)

dirname(p) ==
    IF Len(p) = 0 THEN "." ELSE DirnameUpTo(p, DirnameEnd(p, Len(p), TRUE))

\* the segments of an absolute path, resolved
AbsSegs(p) == NormSegs(Split(p, "/"), <<>>, FALSE)

RECURSIVE CommonLen(_, _)
CommonLen(a, b) ==
    IF Len(a) = 0 \/ Len(b) = 0 THEN 0
    ELSE IF a[1] = b[1] THEN 1 + CommonLen(Tail(a), Tail(b))
    ELSE 0

\* path.relative: from segments f to segments t that share their first k
RelativeSegs(f, t, k) ==
    JoinWith([i \in 1..(Len(f) - k) |-> ".."] \o SubSeq(t, k + 1, Len(t)), "/")

RelativeOf(f, t) == RelativeSegs(f, t, CommonLen(f, t))

\* path.relative(from, to) for absolute arguments
relative(from, to) == RelativeOf(AbsSegs(from), AbsSegs(to))

(***************************************************************************)
(* JavaScript Maps and plain objects.  A Map is a function on its keys; a  *)
(* plain object (an alias table: its keys are enumerated in insertion      *)
(* order) is a sequence of <<key, value>> pairs with distinct keys.        *)
(***************************************************************************)
EmptyMap == [k \in {} |-> NONE]

Has(m, k) == k \in DOMAIN m

Get(m, k) == IF k \in DOMAIN m THEN m[k] ELSE NONE

Put(m, k, v) == [y \in DOMAIN m \cup {k} |-> IF y = k THEN v ELSE m[y]]

ObjHas(o, k) == \E i \in 1..Len(o) : o[i][1] = k

ObjGet(o, k) ==
    IF ObjHas(o, k) THEN o[CHOOSE i \in 1..Len(o) : o[i][1] = k][2] ELSE NONE

\* o[k] = v
ObjSet(o, k, v) ==
    IF ObjHas(o, k)
    THEN [i \in 1..Len(o) |-> IF o[i][1] = k THEN <<k, v>> ELSE o[i]]
    ELSE Append(o, <<k, v>>)

\* { ...a, ...b }
RECURSIVE ObjSpread(_, _)
ObjSpread(a, b) ==
    IF Len(b) = 0 THEN a
    ELSE ObjSpread(ObjSet(a, b[1][1], b[1][2]), Tail(b))

(***************************************************************************)
(* The filesystem: the set of regular files.  The directories are the      *)
(* ancestors of the files.                                                 *)
(***************************************************************************)
FsIsFile(fs, p) ==
    isAbsolute(p) /\ ~EndsWith(p, "/") /\ resolve("/", p) \in fs

\* d, resolved, is the root or an ancestor of a file
FsHasDirectory(fs, d) == d = "/" \/ \E f \in fs : StartsWith(f, d \o "/")

FsIsDirectory(fs, p) == isAbsolute(p) /\ FsHasDirectory(fs, resolve("/", p))

\* fs.existsSync
existsSync(fs, p) == FsIsFile(fs, p) \/ FsIsDirectory(fs, p)

\* isFile of the resolver: statSync(file).isFile(), false when stat throws
isFile(fs, file) == FsIsFile(fs, file)

\* isDir of the resolver
isDir(fs, p) == existsSync(fs, p) /\ FsIsDirectory(fs, p)

(***************************************************************************)
(* Program constants.                                                      *)
(***************************************************************************)
supportedExts == <<".mjs", ".js", ".ts", ".jsx", ".tsx", ".json">>

OPTIMIZE_CACHE_DIR == "node_modules/.vite_opt_cache"

pathSeparator == "/"

\* moduleRE of './server/serverPluginModuleResolve': /^\/@modules\//
ModulePrefix == "/@modules/"

moduleRE_test(p) == StartsWith(p, ModulePrefix)

\* p.replace(moduleRE, '')
moduleRE_strip(p) == IF moduleRE_test(p) THEN Slice(p, Len(ModulePrefix)) ELSE p

\* clientPublicPath of './server/serverPluginClient'
clientPublicPath == "/toyserver/hmr"

(***************************************************************************)
(* Helpers of './utils'.                                                   *)
(***************************************************************************)
\* lookupFile(dir, ['package.json'], true): the nearest manifest at or above dir
RECURSIVE lookupFile(_, _)
LookupFileAt(fs, dir, fullPath, parentDir) ==
    IF existsSync(fs, fullPath) /\ FsIsFile(fs, fullPath) THEN fullPath
    ELSE IF parentDir # dir THEN lookupFile(fs, parentDir)
    ELSE NONE

lookupFile(fs, dir) == LookupFileAt(fs, dir, join(dir, "package.json"), dirname(dir))

\* parseNodeModuleId(id): { scope, name, inPkgPath }, from the segments of id
\* after its scope
ParsedId(scope, rest) ==
    [scope |-> scope,
     name |-> IF Len(rest) > 0 THEN rest[1] ELSE NONE,
     inPkgPath |-> IF Len(rest) > 0 THEN JoinWith(Tail(rest), "/") ELSE ""]

ParsedParts(scoped, parts) ==
    ParsedId(IF scoped THEN parts[1] ELSE "", IF scoped THEN Tail(parts) ELSE parts)

parseNodeModuleId(id) == ParsedParts(StartsWith(id, "@"), Split(id, "/"))

\* the first of file, file + ext, file/index + ext that is a regular file
RECURSIVE FirstFile(_, _)
FirstFile(fs, cands) ==
    IF Len(cands) = 0 THEN NONE
    ELSE IF FsIsFile(fs, cands[1]) THEN cands[1]
    ELSE FirstFile(fs, Tail(cands))

NodeCandidates(x) ==
    <<x>> \o [i \in 1..Len(supportedExts) |-> x \o supportedExts[i]]
          \o [i \in 1..Len(supportedExts) |-> join(x, "index" \o supportedExts[i])]

\* resolveFrom(root, id): package resolution in node_modules, from root upward;
\* NONE stands for the exception it throws
RECURSIVE resolveFrom(_, _, _)
ResolveFromFound(fs, dir, id, found, parentDir) ==
    IF found # NONE THEN found
    ELSE IF parentDir # dir THEN resolveFrom(fs, parentDir, id)
    ELSE NONE

resolveFrom(fs, dir, id) ==
    ResolveFromFound(fs, dir, id,
        FirstFile(fs, NodeCandidates(join(join(dir, "node_modules"), id))),
        dirname(dir))

(***************************************************************************)
(* The mutable state a call reads and writes, threaded through the calls   *)
(* as a record st:                                                         *)
(*   r2f, f2r  requestToFileCache and fileToRequestCache of the instance   *)
(*   idToFile  moduleIdToFileMap      fileToId  moduleFileToIdMap          *)
(*   optMap    toyserverOptimizedMap  nmMap     nodeModulesFileMap         *)
(*   cdCache   cacheDirCache                                               *)
(*   log       the strategies consulted by the call, in order, each an     *)
(*             entry <<name, index>>                                       *)
(* Every operation returns [res |-> its result, st |-> the state after].   *)
(* The steps of an operation are operators of their own, each taking the   *)
(* values computed so far as parameters.                                   *)
(***************************************************************************)
Ret(res, st) == [res |-> res, st |-> st]

Log(st, e) == [st EXCEPT !.log = Append(@, e)]

\* cacheDirCache.set(root, cacheDir); return cacheDir
CacheDirFound(st, root, cacheDir) ==
    Ret(cacheDir, [st EXCEPT !.cdCache = Put(@, root, cacheDir)])

\* resolveOptimizedCacheDir after the manifest lookup: null is not memoized
CacheDirOfManifest(st, root, pkgPath) ==
    IF pkgPath = NONE THEN Ret(NONE, st)
    ELSE CacheDirFound(st, root, join(dirname(pkgPath), OPTIMIZE_CACHE_DIR))

\* resolveOptimizedCacheDir(root)
resolveOptimizedCacheDir(fs, st, root) ==
    IF Has(st.cdCache, root) THEN Ret(st.cdCache[root], st)
    ELSE CacheDirOfManifest(Log(st, <<"lookupManifest", 0>>), root,
                            lookupFile(fs, root))

\* tryResolve(id) || tryResolve(id + '.js'), on the two files in the cache
tryResolve(fs, st, cacheKey, f1, f2) ==
    IF existsSync(fs, f1) /\ FsIsFile(fs, f1)
    THEN Ret(f1, [st EXCEPT !.optMap = Put(@, cacheKey, f1)])
    ELSE IF existsSync(fs, f2) /\ FsIsFile(fs, f2)
    THEN Ret(f2, [st EXCEPT !.optMap = Put(@, cacheKey, f2)])
    ELSE Ret(NONE, st)

\* resolveOptimizedModule after the cache directory lookup cd
OptimizedIn(fs, cacheKey, id, cd) ==
    IF cd.res = NONE THEN Ret(NONE, cd.st)
    ELSE tryResolve(fs, cd.st, cacheKey, join(cd.res, id), join(cd.res, id \o ".js"))

\* resolveOptimizedModule(root, id)
resolveOptimizedModule(fs, st, root, id) ==
    IF Has(st.optMap, root \o "#" \o id) THEN Ret(st.optMap[root \o "#" \o id], st)
    ELSE OptimizedIn(fs, root \o "#" \o id, id, resolveOptimizedCacheDir(fs, st, root))

\* resolveNodeModuleFile after resolveFrom returned resolved, or threw (NONE)
NodeModuleResolved(st, cacheKey, resolved) ==
    IF resolved = NONE THEN Ret(NONE, st)
    ELSE Ret(resolved, [st EXCEPT !.nmMap = Put(@, cacheKey, resolved)])

\* resolveNodeModuleFile(root, id)
resolveNodeModuleFile(fs, st, root, id) ==
    IF Has(st.nmMap, root \o "#" \o id) THEN Ret(st.nmMap[root \o "#" \o id], st)
    ELSE NodeModuleResolved(Log(st, <<"resolveFrom", 0>>), root \o "#" \o id,
                            resolveFrom(fs, root, id))

\* the tail of defaultRequestToFile: publicDirPath if it exists, else the
\* path under the root
PublicOrRoot(fs, publicDirPath, rootPath) ==
    IF existsSync(fs, publicDirPath) THEN publicDirPath ELSE rootPath

DefaultPlainFile(fs, publicPath, root) ==
    PublicOrRoot(fs, join(join(root, "public"), Slice(publicPath, 1)),
                 join(root, Slice(publicPath, 1)))

\* defaultRequestToFile after resolveNodeModuleFile returned nm
DefaultNodeModule(fs, publicPath, root, id, nm) ==
    IF nm.res # NONE
    THEN Ret(nm.res, [nm.st EXCEPT !.idToFile = Put(@, id, nm.res)])
    ELSE Ret(DefaultPlainFile(fs, publicPath, root), nm.st)

\* defaultRequestToFile after resolveOptimizedModule returned opt
DefaultOptimized(fs, publicPath, root, id, opt) ==
    IF opt.res # NONE THEN opt
    ELSE DefaultNodeModule(fs, publicPath, root, id,
           resolveNodeModuleFile(fs, Log(opt.st, <<"node_modules", 0>>), root, id))

\* defaultRequestToFile of a module reference to id
DefaultModuleFile(fs, st, publicPath, root, id) ==
    IF Get(st.idToFile, id) # NONE
    THEN Ret(st.idToFile[id], Log(st, <<"moduleIdToFileMap", 0>>))
    ELSE DefaultOptimized(fs, publicPath, root, id,
           resolveOptimizedModule(fs, Log(st, <<"optimized", 0>>), root, id))

\* defaultRequestToFile(publicPath, root)
defaultRequestToFile(fs, st, publicPath, root) ==
    IF moduleRE_test(publicPath)
    THEN DefaultModuleFile(fs, Log(st, <<"default", 0>>), publicPath, root,
                           moduleRE_strip(publicPath))
    ELSE Ret(DefaultPlainFile(fs, publicPath, root), Log(st, <<"default", 0>>))

\* '/' + rel.replace(/^public\//, '')
StripPublic(rel) == "/" \o (IF StartsWith(rel, "public/") THEN Slice(rel, 7) ELSE rel)

\* defaultFileToRequest(filePath, root)
defaultFileToRequest(st, filePath, root) ==
    IF Get(st.fileToId, filePath) # NONE THEN st.fileToId[filePath]
    ELSE StripPublic(slash(relative(root, filePath)))

\* a probe loop that tries path/index + ext before path + ext
RECURSIVE ProbePostfixIndexFirst(_, _, _)
ProbePostfixIndexFirst(fs, cleanPath, i) ==
    IF i > Len(supportedExts) THEN ""
    ELSE LET ext == supportedExts[i]
         IN  IF isFile(fs, join(cleanPath, "/index" \o ext))
             THEN "/index" \o ext
             ELSE IF isFile(fs, cleanPath \o ext) THEN ext
             ELSE ProbePostfixIndexFirst(fs, cleanPath, i + 1)

\* the loop of resolveFilePathPostfix over supportedExts
RECURSIVE ProbePostfix(_, _, _)
ProbePostfix(fs, cleanPath, i) ==
    IF i > Len(supportedExts) THEN ""
    ELSE IF isFile(fs, cleanPath \o supportedExts[i]) THEN supportedExts[i]
    ELSE IF isFile(fs, join(cleanPath, "/index" \o supportedExts[i]))
    THEN "/index" \o supportedExts[i]
    ELSE ProbePostfix(fs, cleanPath, i + 1)

\* resolveFilePathPostfix after the loop: the postfix if it changes the path
PostfixIfChanged(filePath, cleanPath, postfix) ==
    IF cleanPath \o postfix \o QueryOf(filePath) # filePath THEN postfix ELSE NONE

\* resolveFilePathPostfix on cleanPath = cleanUrl(filePath)
PostfixOfClean(fs, filePath, cleanPath) ==
    IF ~isFile(fs, cleanPath)
    THEN PostfixIfChanged(filePath, cleanPath, ProbePostfix(fs, cleanPath, 1))
    ELSE NONE

\* resolveFilePathPostfix(filePath): the postfix, or NONE for undefined
resolveFilePathPostfix(fs, filePath) == PostfixOfClean(fs, filePath, cleanUrl(filePath))

(***************************************************************************)
(* Resolver entries.  kind "alias": the entry resolveAlias pushes for a    *)
(* directory alias key -> target.  kind "user": a resolver of the user's   *)
(* configuration, of the shape of the one in playground/toyserver.config.js*)
(* (a request prefix key mapped to a directory dir, each direction         *)
(* optional), with its own alias table.                                    *)
(***************************************************************************)
AliasEntry(key, target) ==
    [kind |-> "alias", key |-> key, dir |-> target,
     hasR2F |-> TRUE, hasF2R |-> TRUE, alias |-> <<>>, aliasIsFn |-> FALSE]

\* alias: the resolver's alias table; aliasIsFn: it is a function (id) => ...
\* (the table read as the function's graph), not a plain object
UserEntry(key, dir, hasR2F, hasF2R, alias, aliasIsFn) ==
    [kind |-> "user", key |-> key, dir |-> dir,
     hasR2F |-> hasR2F, hasF2R |-> hasF2R, alias |-> alias, aliasIsFn |-> aliasIsFn]

\* r.requestToFile && r.requestToFile(publicPath, root)
EntryRequestToFile(r, publicPath) ==
    IF r.hasR2F /\ StartsWith(publicPath, r.key)
    THEN join(r.dir, Slice(publicPath, Len(r.key)))
    ELSE NONE

\* an entry whose alias maps the file back without its extension
EntryFileToRequestNoExt(r, filePath) ==
    IF ~r.hasF2R THEN NONE
    ELSE IF r.kind = "alias"
    THEN IF StartsWith(filePath, r.dir \o pathSeparator)
         THEN CutAt(slash(r.key \o relative(r.dir, filePath)), ".")
         ELSE NONE
    ELSE IF StartsWith(filePath, r.dir)
         THEN r.key \o relative(r.dir, filePath)
         ELSE NONE

\* r.fileToRequest && r.fileToRequest(filePath, root)
EntryFileToRequest(r, filePath) ==
    IF ~r.hasF2R THEN NONE
    ELSE IF r.kind = "alias"
    THEN IF StartsWith(filePath, r.dir \o pathSeparator)
         THEN slash(r.key \o relative(r.dir, filePath))
         ELSE NONE
    ELSE IF StartsWith(filePath, r.dir)
         THEN r.key \o relative(r.dir, filePath)
         ELSE NONE

(***************************************************************************)
(* createResolver(root, resolvers, userAlias).  An instance is the record  *)
(* [root, resolvers, literalAlias, literalDirAlias] its closures share.    *)
(***************************************************************************)
\* resolvers.push({...}); literalDirAlias[key] = target
DirAliasPushed(R, key, target) ==
    [R EXCEPT !.resolvers = Append(@, AliasEntry(key, target)),
              !.literalDirAlias = ObjSet(@, key, target)]

\* a resolveAlias that registers the target as given when it is no directory
DirAliasResolvedUnchecked(fs, R, key, target, fromRoot) ==
    IF isDir(fs, fromRoot) THEN DirAliasPushed(R, key, fromRoot)
    ELSE DirAliasPushed(R, key, target)

\* a directory alias: the target from the root if that is a directory, else
\* the target itself if it is one, else the alias is skipped
DirAliasResolved(fs, R, key, target, fromRoot) ==
    IF isDir(fs, fromRoot) THEN DirAliasPushed(R, key, fromRoot)
    ELSE IF ~isDir(fs, target) THEN R
    ELSE DirAliasPushed(R, key, target)

\* the body of the loop of resolveAlias for one key
AliasResolved(fs, R, key, target) ==
    IF StartsWith(key, "/") /\ EndsWith(key, "/") /\ isAbsolute(target)
    THEN DirAliasResolved(fs, R, key, target, join(R.root, target))
    ELSE [R EXCEPT !.literalAlias = ObjSet(@, key, target)]

\* resolveAlias(alias), from the i-th key on
RECURSIVE resolveAliasFrom(_, _, _, _)
resolveAliasFrom(fs, R, alias, i) ==
    IF i > Len(alias) THEN R
    ELSE resolveAliasFrom(fs, AliasResolved(fs, R, alias[i][1], alias[i][2]),
                          alias, i + 1)

resolveAlias(fs, R, alias) == resolveAliasFrom(fs, R, alias, 1)

\* resolvers.forEach(r => r.alias is an object && resolveAlias(r.alias)),
\* over the resolvers given: forEach does not visit the entries pushed meanwhile
RECURSIVE ResolverAliases(_, _, _, _)
ResolverAliases(fs, R, given, i) ==
    IF i > Len(given) THEN R
    ELSE ResolverAliases(fs,
           IF Len(given[i].alias) > 0 /\ ~given[i].aliasIsFn
           THEN resolveAlias(fs, R, given[i].alias) ELSE R,
           given, i + 1)

createResolver(fs, root, resolvers, userAlias) ==
    resolveAlias(fs,
        ResolverAliases(fs, [root |-> root, resolvers |-> resolvers,
                             literalAlias |-> <<>>, literalDirAlias |-> <<>>],
                        resolvers, 1),
        userAlias)

(***************************************************************************)
(* config.ts: plugins are merged into the user's configuration one by one. *)
(***************************************************************************)
\* a merge in which the plugin's alias overrides the user's
resolvePluginOverUser(config, plugin) ==
    [alias |-> ObjSpread(config.alias, plugin.alias),
     resolvers |-> config.resolvers \o plugin.resolvers]

resolvePlugin(config, plugin) ==
    [alias |-> ObjSpread(plugin.alias, config.alias),
     resolvers |-> config.resolvers \o plugin.resolvers]

\* the loop of resolveConfig over config.plugins
RECURSIVE ResolvePlugins(_, _)
ResolvePlugins(config, plugins) ==
    IF Len(plugins) = 0 THEN config
    ELSE ResolvePlugins(resolvePlugin(config, plugins[1]), Tail(plugins))

\* createServer(config): createResolver(root, resolvers, alias)
ServerResolver(fs, root, c) == createResolver(fs, root, c.resolvers, c.alias)

createServerResolver(fs, root, config, plugins) ==
    ServerResolver(fs, root, ResolvePlugins(config, plugins))

(***************************************************************************)
(* The methods of the resolver.                                            *)
(***************************************************************************)
\* a loop that consults the entries from the last one to the first
RECURSIVE ChainRequestToFileReversed(_, _, _, _)
ChainRequestToFileReversed(R, st, publicPath, i) ==
    IF i > Len(R.resolvers) THEN Ret(NONE, st)
    ELSE LET n == Len(R.resolvers) + 1 - i
             r == R.resolvers[n]
             filepath == EntryRequestToFile(r, publicPath)
             st1 == IF r.hasR2F THEN Log(st, <<"r2f", n>>) ELSE st
         IN  IF filepath # NONE THEN Ret(filepath, st1)
             ELSE ChainRequestToFileReversed(R, st1, publicPath, i + 1)

\* the loop of requestToFile over the resolvers, from entry i on
RECURSIVE ChainRequestToFile(_, _, _, _)
\* entry i answered filepath
ChainRequestToFileAt(R, st, publicPath, i, filepath) ==
    IF filepath # NONE THEN Ret(filepath, st)
    ELSE ChainRequestToFile(R, st, publicPath, i + 1)

ChainRequestToFile(R, st, publicPath, i) ==
    IF i > Len(R.resolvers) THEN Ret(NONE, st)
    ELSE ChainRequestToFileAt(R,
           IF R.resolvers[i].hasR2F THEN Log(st, <<"r2f", i>>) ELSE st,
           publicPath, i, EntryRequestToFile(R.resolvers[i], publicPath))

\* resolved with the postfix applied
ApplyPostfix(resolved, postfix) ==
    IF postfix = NONE \/ postfix = "" THEN resolved
    ELSE IF CharAt(postfix, 1) = "/" THEN join(resolved, postfix)
    ELSE resolved \o postfix

\* requestToFileCache.set(publicPath, resolved); return resolved
RequestToFileCached(st, publicPath, resolved) ==
    Ret(resolved, [st EXCEPT !.r2f = Put(@, publicPath, resolved)])

\* requestToFile after the chain or the default found a path
RequestToFileFound(fs, publicPath, found) ==
    RequestToFileCached(found.st, publicPath,
        ApplyPostfix(found.res, resolveFilePathPostfix(fs, found.res)))

\* if (!resolved) resolved = defaultRequestToFile(publicPath, root)
ChainOrDefault(fs, R, publicPath, chain) ==
    IF chain.res # NONE THEN chain
    ELSE defaultRequestToFile(fs, chain.st, publicPath, R.root)

requestToFile(fs, R, st, publicPath) ==
    IF Has(st.r2f, publicPath)
    THEN Ret(st.r2f[publicPath], Log(st, <<"requestToFileCache", 0>>))
    ELSE RequestToFileFound(fs, publicPath,
           ChainOrDefault(fs, R, publicPath, ChainRequestToFile(R, st, publicPath, 1)))

\* the loop of fileToRequest over the resolvers, from entry i on
RECURSIVE ChainFileToRequest(_, _, _, _)
\* entry i answered request
ChainFileToRequestAt(R, st, filePath, i, request) ==
    IF request # NONE THEN Ret(request, st)
    ELSE ChainFileToRequest(R, st, filePath, i + 1)

ChainFileToRequest(R, st, filePath, i) ==
    IF i > Len(R.resolvers) THEN Ret(NONE, st)
    ELSE ChainFileToRequestAt(R,
           IF R.resolvers[i].hasF2R THEN Log(st, <<"f2r", i>>) ELSE st,
           filePath, i, EntryFileToRequest(R.resolvers[i], filePath))

\* fileToRequestCache.set(filePath, res); return res
FileToRequestCached(st, filePath, res) ==
    Ret(res, [st EXCEPT !.f2r = Put(@, filePath, res)])

\* fileToRequest after the chain: its answer, else the default, cached
ChainOrDefaultRequest(R, filePath, chain) ==
    IF chain.res # NONE THEN chain
    ELSE FileToRequestCached(Log(chain.st, <<"defaultFileToRequest", 0>>), filePath,
           defaultFileToRequest(chain.st, filePath, R.root))

\* a fileToRequest that caches the file path in place of the request
fileToRequestCachesPath(R, st, filePath) ==
    IF Has(st.f2r, filePath)
    THEN Ret(st.f2r[filePath], Log(st, <<"fileToRequestCache", 0>>))
    ELSE LET chain == ChainFileToRequest(R, st, filePath, 1)
             st1 == Log(chain.st, <<"defaultFileToRequest", 0>>)
             res == defaultFileToRequest(st1, filePath, R.root)
         IN  IF chain.res # NONE THEN chain
             ELSE Ret(res, [st1 EXCEPT !.f2r = Put(@, filePath, filePath)])

fileToRequest(R, st, filePath) ==
    IF Has(st.f2r, filePath)
    THEN Ret(st.f2r[filePath], Log(st, <<"fileToRequestCache", 0>>))
    ELSE ChainOrDefaultRequest(R, filePath, ChainFileToRequest(R, st, filePath, 1))

\* what normalizePublicPath throws, and the loop that never ends
CHECK_FAIL == "<throw: normalizePublicPath check fail>"
NO_PACKAGE_JSON == "<throw: can't find package.json>"
NEVER_RETURNS == "<never returns>"

IsPath(v) == v \notin {NONE, CHECK_FAIL, NO_PACKAGE_JSON, NEVER_RETURNS}

\* finalize: the two resolutions a and b are compared
FinalizeChecked(result, a, b) ==
    IF a.res # b.res THEN Ret(CHECK_FAIL, b.st) ELSE Ret(result, b.st)

\* finalize after resolver.requestToFile(result) returned a
FinalizeResolved(fs, R, publicPath, result, a) ==
    FinalizeChecked(result, a, requestToFile(fs, R, a.st, publicPath))

\* finalize(result) inside normalizePublicPath(publicPath): result is
\* already result + query
Finalized(fs, R, st, publicPath, result) ==
    FinalizeResolved(fs, R, publicPath, result, requestToFile(fs, R, st, result))

\* what normalizePublicPath returns without finalize (done is TRUE), or hands
\* to finalize
Unfinalized(res, st, done) == [res |-> res, st |-> st, done |-> done]

\* the while loop of normalizePublicPath
RECURSIVE FindPostFix(_, _, _, _, _)
\* the next round of the loop, unless it repeats the state of this one
FindPostFixNext(fs, filePath, inPkgPath, filePathPostFix, findPkgFrom, nextPostFix, nextFrom) ==
    IF nextPostFix = filePathPostFix /\ nextFrom = findPkgFrom
    THEN NEVER_RETURNS
    ELSE FindPostFix(fs, filePath, inPkgPath, nextPostFix, nextFrom)

\* one round of the loop, with the manifest pkgPath found from findPkgFrom
FindPostFixAt(fs, filePath, inPkgPath, filePathPostFix, findPkgFrom, pkgPath) ==
    IF pkgPath = NONE THEN NO_PACKAGE_JSON
    ELSE FindPostFixNext(fs, filePath, inPkgPath, filePathPostFix, findPkgFrom,
                         slash(relative(dirname(pkgPath), filePath)),
                         join(dirname(pkgPath), "../"))

FindPostFix(fs, filePath, inPkgPath, filePathPostFix, findPkgFrom) ==
    IF StartsWith(filePathPostFix, inPkgPath) THEN filePathPostFix
    ELSE FindPostFixAt(fs, filePath, inPkgPath, filePathPostFix, findPkgFrom,
                       lookupFile(fs, findPkgFrom))

\* normalizePublicPath after the loop found postFix, or threw
NormalizeInPackage(st, parsed, postFix) ==
    IF ~IsPath(postFix) THEN Unfinalized(postFix, st, TRUE)
    ELSE Unfinalized(JoinWith(FilterNonEmpty(<<"/@modules", parsed.scope,
                                               parsed.name, postFix>>), "/"),
                     st, FALSE)

\* normalizePublicPath of a module reference outside the optimizer cache
NormalizeNodeModule(fs, st, publicPath, filePath, parsed) ==
    IF parsed.inPkgPath = "" THEN Unfinalized(publicPath, st, TRUE)
    ELSE NormalizeInPackage(st, parsed,
           FindPostFix(fs, filePath, parsed.inPkgPath, "", filePath))

\* normalizePublicPath of a module reference whose file is at relative from
\* the optimizer cache directory cd
NormalizeFromCache(fs, publicPath, cleanPublicPath, filePath, cd, rel) ==
    IF cd.res # NONE /\ ~StartsWith(rel, "..")
    THEN Unfinalized(join("/@modules/", slash(rel)), cd.st, FALSE)
    ELSE NormalizeNodeModule(fs, cd.st, publicPath, filePath,
                             parseNodeModuleId(moduleRE_strip(cleanPublicPath)))

NormalizeModule(fs, publicPath, cleanPublicPath, filePath, cd) ==
    NormalizeFromCache(fs, publicPath, cleanPublicPath, filePath, cd,
                       relative(cd.res, filePath))

\* the request fileToRequest returned, for finalize
NormalizePlain(req) == Unfinalized(req.res, req.st, FALSE)

\* normalizePublicPath after resolver.requestToFile(cleanPublicPath)
\* returned file
NormalizeFile(fs, R, publicPath, cleanPublicPath, file) ==
    IF ~moduleRE_test(cleanPublicPath)
    THEN NormalizePlain(fileToRequest(R, file.st, file.res))
    ELSE NormalizeModule(fs, publicPath, cleanPublicPath, file.res,
                         resolveOptimizedCacheDir(fs, file.st, R.root))

\* return finalize(...), or the value returned or thrown without it
NormalizeFinal(fs, R, publicPath, u) ==
    IF u.done THEN Ret(u.res, u.st)
    ELSE Finalized(fs, R, u.st, publicPath, u.res \o QueryOf(publicPath))

normalizePublicPath(fs, R, st, publicPath) ==
    IF publicPath = clientPublicPath THEN Ret(publicPath, st)
    ELSE NormalizeFinal(fs, R, publicPath,
           NormalizeFile(fs, R, publicPath, cleanUrl(publicPath),
                         requestToFile(fs, R, st, cleanUrl(publicPath))))

\* the loop of alias(id) over the resolvers whose alias is a function
RECURSIVE AliasFunctions(_, _, _)
\* resolver i returned aliased
AliasFunctionsAt(resolvers, id, i, aliased) ==
    IF aliased # NONE /\ aliased # "" THEN aliased
    ELSE AliasFunctions(resolvers, id, i + 1)

AliasFunctions(resolvers, id, i) ==
    IF i > Len(resolvers) THEN NONE
    ELSE AliasFunctionsAt(resolvers, id, i,
           IF resolvers[i].aliasIsFn THEN ObjGet(resolvers[i].alias, id) ELSE NONE)

\* alias(id) after literalAlias[id] returned aliased
AliasLiteral(R, id, aliased) ==
    IF aliased # NONE /\ aliased # "" THEN aliased
    ELSE AliasFunctions(R.resolvers, id, 1)

alias(R, id) == AliasLiteral(R, id, ObjGet(R.literalAlias, id))

\* the first key of literalDirAlias the importer starts with, NONE if none
RECURSIVE FirstDirAlias(_, _, _)
FirstDirAlias(literalDirAlias, importer, i) ==
    IF i > Len(literalDirAlias) THEN NONE
    ELSE IF StartsWith(importer, literalDirAlias[i][1]) THEN literalDirAlias[i][1]
    ELSE FirstDirAlias(literalDirAlias, importer, i + 1)

\* a resolveRelativeRequest that always keeps the request-space path
resolveRelativeRequestNaive(fs, R, st, importer, importee) ==
    LET query == QueryOf(importee)
        naive == resolve(dirname(importer), importee)
        out == IF ~StartsWith(importee, ".") THEN importee ELSE naive
        pathname == cleanUrl(out) \o
                    (IF EndsWith(importee, "/") /\ ~EndsWith(out, "/")
                     THEN "/" ELSE "")
    IN  Ret(<<pathname, query>>, st)

\* the return of resolveRelativeRequest: res is <<pathname, query>>
RelativeResult(importee, resolved, st) ==
    Ret(<<cleanUrl(resolved) \o
            (IF EndsWith(importee, "/") /\ ~EndsWith(resolved, "/") THEN "/" ELSE ""),
          QueryOf(importee)>>, st)

\* resolved = resolver.fileToRequest(importeeFilePath)
RelativeRequested(importee, request) ==
    RelativeResult(importee, request.res, request.st)

\* the resolved path is outside of the alias directory: its full path is used
RelativeByFile(R, importee, importerFile) ==
    RelativeRequested(importee,
        fileToRequest(R, importerFile.st,
                      resolve(dirname(importerFile.res), importee)))

\* resolveRelativeRequest of a relative importee, with resolved the
\* request-space path and key the first alias the importer starts with
RelativeResolved(fs, R, st, importer, importee, resolved, key) ==
    IF key # NONE /\ ~StartsWith(resolved, key)
    THEN RelativeByFile(R, importee, requestToFile(fs, R, st, importer))
    ELSE RelativeResult(importee, resolved, st)

\* resolveRelativeRequest(importer, importee)
resolveRelativeRequest(fs, R, st, importer, importee) ==
    IF ~StartsWith(importee, ".") THEN RelativeResult(importee, importee, st)
    ELSE RelativeResolved(fs, R, st, importer, importee,
                          resolve(dirname(importer), importee),
                          FirstDirAlias(R.literalDirAlias, importer, 1))

\* isPublicRequest after resolver.requestToFile(publicPath) returned file
IsPublicFile(R, file) ==
    Ret(StartsWith(file.res, resolve(R.root, "public")), file.st)

isPublicRequest(fs, R, st, publicPath) ==
    IsPublicFile(R, requestToFile(fs, R, st, publicPath))

(***************************************************************************)
(* The process.  One filesystem, the module-level Maps, and the resolver   *)
(* instances created in it, each with its two caches.                      *)
(***************************************************************************)
VARIABLES
    files,                  \* the regular files of the filesystem
    scenario,               \* which project the process serves
    config,                 \* instance id -> the configuration of its server
    inst,                   \* instance id -> the instance createResolver built
    requestToFileCache,     \* instance id -> Map
    fileToRequestCache,     \* instance id -> Map
    moduleIdToFileMap,
    moduleFileToIdMap,
    toyserverOptimizedMap,
    nodeModulesFileMap,
    cacheDirCache,
    calls,                  \* the number of calls made so far
    budget,                 \* the number of calls the behaviour may make
    last                    \* the last call: its arguments, result and log

vars == <<files, scenario, config, inst, requestToFileCache, fileToRequestCache,
          moduleIdToFileMap, moduleFileToIdMap, toyserverOptimizedMap,
          nodeModulesFileMap, cacheDirCache, calls, budget, last>>

\* the calls a behaviour makes, at most
MaxCalls == 1

\* the calls a behaviour of the two-server process makes, at most
MaxProcessCalls == 2

NoConfig == [alias |-> <<>>, resolvers |-> <<>>]

(***************************************************************************)
(* Scenario "plain": a project without aliases, with files in the root,    *)
(* in public/ and in a sibling publicx/, some of them fuzzy.               *)
(***************************************************************************)
PlainFiles ==
    {"/p/a.js", "/p/public/a.js", "/p/foo.js", "/p/foo.ts", "/p/foo/index.js"}

PlainFileSets == {S \cup {"/p/publicx/l.js"} : S \in SUBSET PlainFiles}

PlainRequests == {"/a.js", "/foo", "/foo.js", "/publicx/l.js", "/public/a.js"}

PlainImports == {<<"/foo/index.js", "../a.js">>, <<"/a.js", "./foo/">>}

(***************************************************************************)
(* Scenario "alias": directory and literal aliases from the user, from     *)
(* plugins and from resolvers.                                             *)
(***************************************************************************)
AliasFiles == {"/p/d/e/u.ts", "/p/d/o.js", "/d/e/u.ts", "/p/o/u.ts"}

AliasRequests == {"/@f/u", "/@f/u.ts", "/d/e/u.ts", "/d/o.js", "/@g/u.ts"}

AliasImports ==
    {<<"/@f/u.ts", "../o.js">>, <<"/@f/u.ts", "./v.ts?t">>, <<"/@f/u.ts", "r">>,
     <<"/d/o.js", "./e/u.ts">>, <<"/@f/u.ts", "../w/">>}

AliasIds == {"r", "s"}

\* <<user configuration, plugins>>
AliasConfigs ==
    { <<[alias |-> << <<"/@f/", "/d/e">> >>, resolvers |-> <<>>], <<>> >>,
      <<[alias |-> << <<"r", "y">>, <<"/@f/", "/p/d/e">> >>, resolvers |-> <<>>],
        << [alias |-> << <<"r", "x">>, <<"s", "q">> >>, resolvers |-> <<>>],
           [alias |-> << <<"r", "z">> >>,
            resolvers |-> << UserEntry("/@g/", "/p/o", TRUE, TRUE,
                                       << <<"r", "w">> >>, FALSE) >>] >> >>,
      <<[alias |-> << <<"/@f/", "/d/e">>, <<"r", "y">> >>,
         resolvers |-> << UserEntry("/@f/", "/p/o", TRUE, TRUE,
                                    << <<"r", "x">>, <<"s", "q">> >>, TRUE) >>],
        <<>> >>,
      <<[alias |-> << <<"/@f/", "/d/e">> >>,
         resolvers |-> << UserEntry("/@g/", "/p/d", FALSE, TRUE,
                                    << <<"/@f/", "/o">>, <<"r", "x">> >>, FALSE) >>],
        <<>> >>,
      <<[alias |-> << <<"/@g/", "/nodir">>, <<"/@f/", "/d/e">>, <<"s", "/q">> >>,
         resolvers |-> <<>>], <<>> >> }

(***************************************************************************)
(* Scenario "module": packages in node_modules and in the optimizer cache, *)
(* with and without their manifests.                                       *)
(***************************************************************************)
ModuleFiles ==
    {"/p/package.json", "/p/node_modules/.vite_opt_cache/m.js",
     "/p/node_modules/m/index.js", "/p/node_modules/m/s/x.js",
     "/p/node_modules/m/package.json"}

ModuleFileSets ==
    { {},
      {"/p/package.json", "/p/node_modules/.vite_opt_cache/m.js"},
      {"/p/package.json", "/p/node_modules/.vite_opt_cache/m.js",
       "/p/node_modules/m/index.js", "/p/node_modules/m/package.json"},
      {"/p/node_modules/m/index.js"},
      {"/p/node_modules/m/index.js", "/p/node_modules/m/s/x.js"},
      {"/p/node_modules/m/index.js", "/p/node_modules/m/s/x.js",
       "/p/node_modules/m/package.json"},
      {"/p/package.json", "/p/node_modules/m/index.js",
       "/p/node_modules/m/s/x.js"},
      {"/package.json", "/p/node_modules/m/index.js",
       "/p/node_modules/m/s/x.js"},
      ModuleFiles }

\* the user's configuration: none, or a resolver of its own for the
\* module references, serving them from the directory /p/v
ModuleConfigs ==
    { NoConfig,
      [alias |-> <<>>,
       resolvers |-> << UserEntry("/@modules/", "/p/v", TRUE, TRUE, <<>>, FALSE) >>] }

ModuleRequests == {"/@modules/m", "/@modules/m.js", "/@modules/m/s/x"}

\* the filesystems of the process that serves the two roots /p and /q
ProcessFiles ==
    { {"/p/package.json", "/p/node_modules/.vite_opt_cache/m.js",
       "/q/node_modules/m/index.js"},
      {"/p/package.json", "/p/node_modules/.vite_opt_cache/m.js",
       "/p/node_modules/m/index.js", "/q/package.json",
       "/q/node_modules/m/index.js"},
      {"/p/package.json", "/p/node_modules/m/index.js",
       "/q/node_modules/m/index.js"},
      {"/p/node_modules/m/index.js", "/p/node_modules/m/s/x.js",
       "/p/node_modules/m/package.json"} }

Requests ==
    CASE scenario = "plain" -> PlainRequests
      [] scenario = "alias" -> AliasRequests
      [] scenario = "module" -> ModuleRequests

\* the requests that are also normalized with a suffix
SuffixRequests ==
    CASE scenario = "plain" -> {"/a.js", "/foo"}
      [] scenario = "alias" -> {"/@f/u"}
      [] scenario = "module" -> {"/@modules/m"}

Suffixes == {"?t", "#h"}

NormalizeArgs == Requests \cup {p \o s : p \in SuffixRequests, s \in Suffixes}

FileArgs ==
    CASE scenario = "plain" -> PlainFiles
      [] scenario = "alias" -> AliasFiles
      [] scenario = "module" -> ModuleFiles

Imports ==
    CASE scenario = "plain" -> PlainImports
      [] scenario = "alias" -> AliasImports
      [] scenario = "module" -> {<<"/@modules/m/s/x.js", "./y.js">>}

Ids == IF scenario = "alias" THEN AliasIds ELSE {"r"}

InitCommon ==
    /\ requestToFileCache = [i \in DOMAIN inst |-> EmptyMap]
    /\ fileToRequestCache = [i \in DOMAIN inst |-> EmptyMap]
    /\ moduleIdToFileMap = EmptyMap
    /\ moduleFileToIdMap = EmptyMap
    /\ toyserverOptimizedMap = EmptyMap
    /\ nodeModulesFileMap = EmptyMap
    /\ cacheDirCache = EmptyMap
    /\ calls = 0
    /\ last = [op |-> "none", inst |-> 0, arg |-> NONE, arg2 |-> NONE,
               res |-> NONE, log |-> <<>>]

\* createServer(config) for every server of the process
Servers ==
    inst = [i \in DOMAIN config |->
              createServerResolver(files, config[i].root, config[i].user,
                                   config[i].plugins)]

InitPlain ==
    /\ scenario = "plain"
    /\ files \in PlainFileSets
    /\ config = [i \in {1} |-> [root |-> "/p", user |-> NoConfig, plugins |-> <<>>]]

InitAlias ==
    /\ scenario = "alias"
    /\ files \in SUBSET AliasFiles
    /\ \E c \in AliasConfigs :
         config = [i \in {1} |-> [root |-> "/p", user |-> c[1], plugins |-> c[2]]]

InitModule ==
    /\ scenario = "module"
    /\ files \in ModuleFileSets
    /\ \E c \in ModuleConfigs :
         config = [i \in {1} |-> [root |-> "/p", user |-> c, plugins |-> <<>>]]

Init ==
    /\ InitPlain \/ InitAlias \/ InitModule
    /\ Servers
    /\ budget = MaxCalls
    /\ InitCommon

\* one process that serves two projects and makes more calls
InitProcess ==
    /\ scenario = "module"
    /\ files \in ProcessFiles
    /\ config = [i \in {1, 2} |-> [root |-> IF i = 1 THEN "/p" ELSE "/q",
                                   user |-> NoConfig, plugins |-> <<>>]]
    /\ Servers
    /\ budget = MaxProcessCalls
    /\ InitCommon

\* the state instance i's calls read
St(i) ==
    [r2f |-> requestToFileCache[i], f2r |-> fileToRequestCache[i],
     idToFile |-> moduleIdToFileMap, fileToId |-> moduleFileToIdMap,
     optMap |-> toyserverOptimizedMap, nmMap |-> nodeModulesFileMap,
     cdCache |-> cacheDirCache, log |-> <<>>]

\* the call op(arg, arg2) on instance i returned out
Returned(i, op, arg, arg2, out) ==
    /\ calls < budget
    /\ calls' = calls + 1
    /\ requestToFileCache' = [requestToFileCache EXCEPT ![i] = out.st.r2f]
    /\ fileToRequestCache' = [fileToRequestCache EXCEPT ![i] = out.st.f2r]
    /\ moduleIdToFileMap' = out.st.idToFile
    /\ moduleFileToIdMap' = out.st.fileToId
    /\ toyserverOptimizedMap' = out.st.optMap
    /\ nodeModulesFileMap' = out.st.nmMap
    /\ cacheDirCache' = out.st.cdCache
    /\ last' = [op |-> op, inst |-> i, arg |-> arg, arg2 |-> arg2,
                res |-> out.res, log |-> out.st.log]
    /\ UNCHANGED <<files, scenario, config, inst, budget>>

RequestToFile ==
    \E i \in DOMAIN inst, publicPath \in Requests :
        Returned(i, "requestToFile", publicPath, NONE,
                 requestToFile(files, inst[i], St(i), publicPath))

FileToRequest ==
    \E i \in DOMAIN inst, filePath \in FileArgs :
        Returned(i, "fileToRequest", filePath, NONE,
                 fileToRequest(inst[i], St(i), filePath))

NormalizePublicPath ==
    \E i \in DOMAIN inst, publicPath \in NormalizeArgs :
        Returned(i, "normalizePublicPath", publicPath, NONE,
                 normalizePublicPath(files, inst[i], St(i), publicPath))

ResolveRelativeRequest ==
    \E i \in DOMAIN inst, m \in Imports :
        LET out == resolveRelativeRequest(files, inst[i], St(i), m[1], m[2])
        IN  Returned(i, "resolveRelativeRequest", m[1], m[2], out)

IsPublicRequest ==
    \E i \in DOMAIN inst, publicPath \in Requests :
        Returned(i, "isPublicRequest", publicPath, NONE,
                 isPublicRequest(files, inst[i], St(i), publicPath))

Alias ==
    \E i \in DOMAIN inst, id \in Ids :
        Returned(i, "alias", id, NONE, Ret(alias(inst[i], id), St(i)))

\* resolveOptimizedCacheDir(root), as the optimizer calls it for a server
ResolveOptimizedCacheDir ==
    \E i \in DOMAIN inst :
        Returned(i, "resolveOptimizedCacheDir", inst[i].root, NONE,
                 resolveOptimizedCacheDir(files, St(i), inst[i].root))

Next ==
    \/ RequestToFile
    \/ FileToRequest
    \/ NormalizePublicPath
    \/ ResolveRelativeRequest
    \/ IsPublicRequest
    \/ Alias
    \/ ResolveOptimizedCacheDir

Spec == Init /\ [][Next]_vars

SpecProcess == InitProcess /\ [][Next]_vars

(***************************************************************************)
(* The claims.  They speak of the last call (its arguments, result and     *)
(* log) and of what a further call would return in the state it left.      *)
(***************************************************************************)
\* the instance of the last call, and the state its next call would read
LastR == inst[last.inst]

LastSt == St(last.inst)

\* no resolver of the user's: every entry of the chain derives from an alias
OnlyAliasEntries(R) ==
    \A k \in 1..Len(R.resolvers) : R.resolvers[k].kind = "alias"

UnderRoot(R, f) == StartsWith(f, R.root \o "/")

\* C1: round-trip fixed point.  For every regular file F under the root of
\* a resolver without user resolvers, requestToFile(fileToRequest(F)) = F.
C1_RoundTrip ==
    (/\ last.op = "fileToRequest"
     /\ last.arg \in files
     /\ UnderRoot(LastR, last.arg)
     /\ OnlyAliasEntries(LastR))
    => requestToFile(files, LastR, LastSt, last.res).res = last.arg

\* C2: normalization is idempotent.  Whenever normalizePublicPath(p)
\* returns a path n, normalizePublicPath(n) returns n.
C2_NormalizeIdempotent ==
    (last.op = "normalizePublicPath" /\ IsPath(last.res))
    => normalizePublicPath(files, LastR, LastSt, last.res).res = last.res

\* a module reference was normalized to another path: /@modules/m to the
\* file m.js of the optimizer cache
C2_Witness ==
    /\ last.op = "normalizePublicPath"
    /\ last.arg = "/@modules/m"
    /\ last.res = "/@modules/m.js"

\* the path the chain chooses for a request that is no module reference:
\* the first entry's answer, else public/ or the root
ChosenPath(R, publicPath) ==
    LET chain == ChainRequestToFile(R, LastSt, publicPath, 1).res
    IN  IF chain # NONE THEN chain
        ELSE DefaultPlainFile(files, publicPath, R.root)

\* e is the first extension, in the order of supportedExts, with a regular
\* file at path + e or at path/index + e
FirstExt(path, k) ==
    /\ (path \o supportedExts[k]) \in files
       \/ (path \o "/index" \o supportedExts[k]) \in files
    /\ \A j \in 1..(k - 1) :
         /\ (path \o supportedExts[j]) \notin files
         /\ (path \o "/index" \o supportedExts[j]) \notin files

FuzzyResult(path) ==
    IF path \in files THEN path
    ELSE IF \E k \in 1..Len(supportedExts) : FirstExt(path, k)
    THEN LET k == CHOOSE k \in 1..Len(supportedExts) : FirstExt(path, k)
         IN  IF (path \o supportedExts[k]) \in files
             THEN path \o supportedExts[k]
             ELSE path \o "/index" \o supportedExts[k]
    ELSE path

\* C3: fuzzy resolution.  For a request without query or fragment that is
\* no module reference, requestToFile returns the chosen path itself when it
\* is a regular file or nothing is found, else the chosen path with the
\* first extension's postfix, path + e before path/index + e.
C3_FuzzyResolution ==
    (last.op = "requestToFile" /\ ~moduleRE_test(last.arg))
    => last.res = FuzzyResult(ChosenPath(LastR, last.arg))

\* foo.ts and foo/index.js: /foo resolves to the index file, .js before .ts
C3_Witness ==
    /\ last.op = "requestToFile"
    /\ last.arg = "/foo"
    /\ {"/p/foo.ts", "/p/foo/index.js"} \subseteq files
    /\ last.res = "/p/foo/index.js"

\* the directory alias entries of R that answer request P with file F: the
\* entry is the first of the chain to answer P, fuzzy resolution of its
\* answer (not itself a file) finds F, and no earlier entry claims F
AliasAnswers(R, k, P, F) ==
    /\ R.resolvers[k].kind = "alias"
    /\ StartsWith(P, R.resolvers[k].key)
    /\ \A j \in 1..(k - 1) :
         /\ EntryRequestToFile(R.resolvers[j], P) = NONE
         /\ EntryFileToRequest(R.resolvers[j], F) = NONE
    /\ F \in files
    /\ F # EntryRequestToFile(R.resolvers[k], P)
    /\ requestToFile(files, R, LastSt, P).res = F

\* C4 (as stated): directory alias end to end.  When the request K+rest is
\* answered by the alias K -> D and fuzzy resolution finds D/rest.ext,
\* fileToRequest on that file returns the request K+rest that was asked for.
C4_AliasEndToEnd ==
    (last.op = "fileToRequest")
    => \A k \in 1..Len(LastR.resolvers), P \in Requests :
         AliasAnswers(LastR, k, P, last.arg) => last.res = P

\* C4 (amended): directory alias end to end.  When the alias K -> D is the
\* first entry of the chain to answer the request K+rest and to claim the
\* file, and fuzzy resolution finds D/rest.ext, requestToFile returns
\* D/rest.ext and fileToRequest on that file returns K+rest.ext: the request
\* with the postfix that was found, not the request as asked.
C4_AliasEndToEndExact ==
    (last.op = "fileToRequest")
    => \A k \in 1..Len(LastR.resolvers), P \in Requests :
         AliasAnswers(LastR, k, P, last.arg)
         => LET D == LastR.resolvers[k].dir
                K == LastR.resolvers[k].key
                found == D \o "/" \o Slice(P, Len(K))
            IN  /\ StartsWith(last.arg, found)
                /\ Slice(last.arg, Len(found)) # ""
                /\ last.res = P \o Slice(last.arg, Len(found))

\* alias /@f/ -> <root>/d/e, request /@f/u, file <root>/d/e/u.ts
C4_Witness ==
    /\ last.op = "fileToRequest"
    /\ last.arg = "/p/d/e/u.ts"
    /\ last.res = "/@f/u.ts"
    /\ \E k \in 1..Len(LastR.resolvers) : AliasAnswers(LastR, k, "/@f/u", last.arg)

\* C5: public classification.  isPublicRequest(p) is true exactly when the
\* file requestToFile(p) returns lies inside the directory <root>/public.
C5_PublicClassification ==
    (last.op = "isPublicRequest")
    => (last.res <=>
          StartsWith(requestToFile(files, LastR, LastSt, last.arg).res,
                     resolve(LastR.root, "public") \o "/"))

\* the optimizer cache directory of root: that of the nearest manifest
CacheDirOf(root) ==
    IF lookupFile(files, root) = NONE THEN NONE
    ELSE join(dirname(lookupFile(files, root)), OPTIMIZE_CACHE_DIR)

\* the regular file named id or id.js in the cache directory, NONE if none
CachedModule(root, id) ==
    LET cacheDir == CacheDirOf(root)
    IN  IF cacheDir = NONE THEN NONE
        ELSE IF join(cacheDir, id) \in files THEN join(cacheDir, id)
        ELSE IF join(cacheDir, id \o ".js") \in files THEN join(cacheDir, id \o ".js")
        ELSE NONE

\* C6: optimizer short-circuit.  Whenever the optimizer cache directory of
\* the root holds a regular file named id or id.js, requestToFile of
\* /@modules/id returns that file and node_modules resolution is not
\* invoked, after any earlier calls in the process.
C6_OptimizerShortCircuit ==
    (/\ last.op = "requestToFile"
     /\ moduleRE_test(last.arg)
     /\ CachedModule(LastR.root, moduleRE_strip(last.arg)) # NONE)
    => /\ last.res = CachedModule(LastR.root, moduleRE_strip(last.arg))
       /\ \A n \in 1..Len(last.log) : last.log[n] # <<"resolveFrom", 0>>

\* C7: suffix preservation.  For a request p that is no module reference
\* and a suffix s, normalizePublicPath(p + s) returns
\* normalizePublicPath(p) + s and raises no internal-consistency error.
C7_SuffixPreserved ==
    (/\ last.op = "normalizePublicPath"
     /\ ~moduleRE_test(last.arg)
     /\ OnlyAliasEntries(LastR)
     /\ \E s \in Suffixes : EndsWith(last.arg, s))
    => LET p == cleanUrl(last.arg)
           s == Slice(last.arg, Len(p))
           plain == normalizePublicPath(files, LastR, LastSt, p).res
       IN  /\ last.res # CHECK_FAIL
           /\ IsPath(plain) => last.res = plain \o s

\* C8: directory alias boundary correction.  For a relative importee and an
\* importer under the directory alias key K (the first key it starts with):
\* when the request-space resolution leaves K, the pathname is the request
\* of the file the importee resolves to against the directory of
\* requestToFile(importer); when it stays under K, it is the request-space
\* path.  A trailing slash of the importee is kept, query and fragment cut.
C8_BoundaryCorrection ==
    (/\ last.op = "resolveRelativeRequest"
     /\ StartsWith(last.arg2, ".")
     /\ FirstDirAlias(LastR.literalDirAlias, last.arg, 1) # NONE)
    => LET K == FirstDirAlias(LastR.literalDirAlias, last.arg, 1)
           naive == resolve(dirname(last.arg), last.arg2)
           importerFile == requestToFile(files, LastR, LastSt, last.arg).res
           importeeFile == resolve(dirname(importerFile), last.arg2)
           request == fileToRequest(LastR, LastSt, importeeFile).res
           kept(r) == IF EndsWith(last.arg2, "/") /\ ~EndsWith(r, "/")
                      THEN cleanUrl(r) \o "/" ELSE cleanUrl(r)
       IN  IF StartsWith(naive, K)
           THEN last.res[1] = kept(naive)
           ELSE last.res[1] = kept(request)

\* /@f/u.ts imports ../o.js: the file is <root>/d/o.js, the request /d/o.js,
\* and not the request-space path /o.js
C8_Witness ==
    /\ last.op = "resolveRelativeRequest"
    /\ last.arg = "/@f/u.ts"
    /\ last.arg2 = "../o.js"
    /\ ObjGet(LastR.literalDirAlias, "/@f/") = "/p/d/e"
    /\ last.res[1] = "/d/o.js"

\* the alias maps of the plugins and of the resolvers of instance i
SuppliedAliases(i) ==
    {config[i].plugins[n].alias : n \in DOMAIN config[i].plugins}
    \cup {inst[i].resolvers[n].alias : n \in DOMAIN inst[i].resolvers}

\* key is a literal alias: not the key of a directory alias
IsLiteral(key, target) ==
    ~(StartsWith(key, "/") /\ EndsWith(key, "/") /\ isAbsolute(target))

\* C9: literal alias precedence.  When the user's alias map and the alias
\* map of a plugin or resolver define the same literal key, alias(key)
\* returns the user's value.
C9_UserAliasWins ==
    (/\ last.op = "alias"
     /\ ObjHas(config[last.inst].user.alias, last.arg)
     /\ IsLiteral(last.arg, ObjGet(config[last.inst].user.alias, last.arg))
     /\ \E a \in SuppliedAliases(last.inst) : ObjHas(a, last.arg))
    => last.res = ObjGet(config[last.inst].user.alias, last.arg)

\* the user's r -> y against two plugins' r -> x and r -> z and a plugin
\* resolver's r -> w
C9_Witness ==
    /\ last.op = "alias"
    /\ last.arg = "r"
    /\ last.res = "y"
    /\ Len(config[last.inst].plugins) = 2
    /\ \E a \in SuppliedAliases(last.inst) : ObjGet(a, "r") = "x"

\* the positions of the log that record the consultation of an entry
Consulted(tag) == {n \in 1..Len(last.log) : last.log[n][1] = tag}

\* the log shows the entries with the method consulted in the order of the
\* chain, none skipped, up to the first that answers, and the default
\* (logged as dflt) after all of them, only when none answers; has and
\* answers give, for every entry, whether it has the method and its answer
InChainOrder(tag, has, answers, dflt) ==
    LET first == {k \in DOMAIN answers :
                    /\ answers[k] # NONE
                    /\ \A j \in 1..(k - 1) : answers[j] = NONE}
        due == {k \in DOMAIN answers : has[k] /\ \A f \in first : k <= f}
    IN  /\ {last.log[n][2] : n \in Consulted(tag)} = due
        /\ \A a, b \in Consulted(tag) : a < b => last.log[a][2] < last.log[b][2]
        /\ (first = {}) <=> (\E n \in 1..Len(last.log) : last.log[n] = <<dflt, 0>>)
        /\ \A n \in 1..Len(last.log), c \in Consulted(tag) :
             last.log[n] = <<dflt, 0>> => c < n

\* R with one direction removed from every entry
WithoutF2R(R) ==
    [R EXCEPT !.resolvers = [k \in DOMAIN @ |-> [@[k] EXCEPT !.hasF2R = FALSE]]]

WithoutR2F(R) ==
    [R EXCEPT !.resolvers = [k \in DOMAIN @ |-> [@[k] EXCEPT !.hasR2F = FALSE]]]

\* C10: chain order.  In both directions the user-supplied resolvers are
\* consulted first, then the alias-derived entries, then the built-in
\* default, and the first non-empty result is used; stripping the other
\* direction from every entry changes neither the order nor the outcome.
C10_ChainOrder ==
    /\ \A i \in DOMAIN inst : \A a, b \in 1..Len(inst[i].resolvers) :
         (inst[i].resolvers[a].kind = "user" /\ inst[i].resolvers[b].kind = "alias")
         => a < b
    /\ (last.op = "requestToFile" /\ last.log[1] # <<"requestToFileCache", 0>>)
       => LET R == LastR
              answers == [k \in DOMAIN R.resolvers |->
                            EntryRequestToFile(R.resolvers[k], last.arg)]
              has == [k \in DOMAIN R.resolvers |-> R.resolvers[k].hasR2F]
              answer(k) == answers[k]
              fresh == [LastSt EXCEPT !.r2f = EmptyMap]
              alone == requestToFile(files, WithoutF2R(R), fresh, last.arg)
          IN  /\ InChainOrder("r2f", has, answers, "default")
              /\ \A k \in 1..Len(R.resolvers) :
                   (answer(k) # NONE /\ \A j \in 1..(k - 1) : answer(j) = NONE)
                   => last.res = FuzzyResult(answer(k))
              /\ alone.res = last.res
              /\ SelectSeq(alone.st.log, LAMBDA e : e[1] = "r2f")
                   = SelectSeq(last.log, LAMBDA e : e[1] = "r2f")
    /\ (last.op = "fileToRequest" /\ last.log[1] # <<"fileToRequestCache", 0>>)
       => LET R == LastR
              answers == [k \in DOMAIN R.resolvers |->
                            EntryFileToRequest(R.resolvers[k], last.arg)]
              has == [k \in DOMAIN R.resolvers |-> R.resolvers[k].hasF2R]
              answer(k) == answers[k]
              fresh == [LastSt EXCEPT !.f2r = EmptyMap]
              alone == fileToRequest(WithoutR2F(R), fresh, last.arg)
          IN  /\ InChainOrder("f2r", has, answers, "defaultFileToRequest")
              /\ \A k \in 1..Len(R.resolvers) :
                   (answer(k) # NONE /\ \A j \in 1..(k - 1) : answer(j) = NONE)
                   => last.res = answer(k)
              /\ alone.res = last.res
              /\ alone.st.log = last.log

\* a user resolver and a directory alias both answer /@f/u.ts: the user
\* resolver, first in the chain, is the only entry consulted and its file
\* is returned
C10_Witness ==
    /\ last.op = "requestToFile"
    /\ last.arg = "/@f/u.ts"
    /\ Len(LastR.resolvers) = 2
    /\ LastR.resolvers[1].kind = "user"
    /\ EntryRequestToFile(LastR.resolvers[1], last.arg) = "/p/o/u.ts"
    /\ EntryRequestToFile(LastR.resolvers[2], last.arg) # NONE
    /\ last.log = << <<"r2f", 1>> >>
    /\ last.res = "/p/o/u.ts"

\* the file the node-module lookup finds for id from root in a process that
\* has resolved nothing yet (optimizer cache, then node_modules), NONE if none
ModuleLookup(root, id) ==
    IF CachedModule(root, id) # NONE THEN CachedModule(root, id)
    ELSE resolveFrom(files, root, id)

\* C11: module reference before resolver entries.  For a request that starts
\* with /@modules/ and whose node-module lookup succeeds, requestToFile
\* returns the file the lookup finds and consults no resolver entry, even
\* when a registered entry's request->file function matches the path.
C11_ModuleLookupFirst ==
    (/\ last.op = "requestToFile"
     /\ moduleRE_test(last.arg)
     /\ ModuleLookup(LastR.root, moduleRE_strip(last.arg)) # NONE)
    => /\ last.res = FuzzyResult(ModuleLookup(LastR.root, moduleRE_strip(last.arg)))
       /\ \A n \in 1..Len(last.log) : last.log[n][1] # "r2f"

\* C12: memoization of both directions.  After requestToFile(p) returns f
\* the request->file cache maps p to f, after fileToRequest(F) returns r the
\* file->request cache maps F to r, whichever strategy produced the result,
\* and a later call with the same argument returns the recorded value and
\* consults nothing but the cache.
C12_BothDirectionsMemoized ==
    /\ (last.op = "requestToFile")
       => /\ Get(requestToFileCache[last.inst], last.arg) = last.res
          /\ requestToFile(files, LastR, LastSt, last.arg)
               = Ret(last.res, Log(LastSt, <<"requestToFileCache", 0>>))
    /\ (last.op = "fileToRequest")
       => /\ Get(fileToRequestCache[last.inst], last.arg) = last.res
          /\ fileToRequest(LastR, LastSt, last.arg)
               = Ret(last.res, Log(LastSt, <<"fileToRequestCache", 0>>))

\* the directory an alias target stands for: the target from the root if
\* that is a directory, else the target itself if it is one, else NONE
ResolvedDir(root, target) ==
    IF isDir(files, join(root, target)) THEN join(root, target)
    ELSE IF isDir(files, target) THEN target
    ELSE NONE

\* the alias maps (objects, not functions) of the resolvers given to R
ResolverAliasMaps(R) ==
    {R.resolvers[n].alias : n \in {k \in DOMAIN R.resolvers :
                                     /\ R.resolvers[k].kind = "user"
                                     /\ ~R.resolvers[k].aliasIsFn}}

\* the user's map and a resolver's map both define the directory alias K,
\* with different existing target directories
BothDefineDir(i, K) ==
    /\ ObjHas(config[i].user.alias, K)
    /\ ~IsLiteral(K, ObjGet(config[i].user.alias, K))
    /\ ResolvedDir(inst[i].root, ObjGet(config[i].user.alias, K)) # NONE
    /\ \E a \in ResolverAliasMaps(inst[i]) :
         /\ ObjHas(a, K)
         /\ ~IsLiteral(K, ObjGet(a, K))
         /\ ResolvedDir(inst[i].root, ObjGet(a, K)) # NONE
         /\ ResolvedDir(inst[i].root, ObjGet(a, K))
              # ResolvedDir(inst[i].root, ObjGet(config[i].user.alias, K))

\* C13: directory alias precedence.  When a resolver's alias map and the
\* user's alias map both define the directory alias K with different
\* existing target directories, and no resolver answers the request itself,
\* requestToFile of a path under K resolves into the user's target
\* directory, which is also the target recorded for K in literalDirAlias.
C13_UserDirAliasWins ==
    (last.op = "requestToFile")
    => \A n \in DOMAIN config[last.inst].user.alias :
         LET K == config[last.inst].user.alias[n][1]
             D == ResolvedDir(LastR.root, config[last.inst].user.alias[n][2])
         IN  (/\ BothDefineDir(last.inst, K)
              /\ StartsWith(last.arg, K)
              /\ \A k \in DOMAIN LastR.resolvers :
                   LastR.resolvers[k].kind = "user"
                   => EntryRequestToFile(LastR.resolvers[k], last.arg) = NONE)
             => /\ StartsWith(last.res, D \o "/")
                /\ ObjGet(LastR.literalDirAlias, K) = D

\* the filesystems a later call may find: the same files, or the same with
\* a manifest that has appeared in, or disappeared from, the root
LaterFiles(root) ==
    {files, files \cup {join(root, "package.json")},
     files \ {join(root, "package.json")}}

\* C14: the cache locator memoizes absence.  Once
\* resolveOptimizedCacheDir(root) has returned none, a later call for the
\* root returns none without searching again, also when a manifest has
\* appeared meanwhile; once it has returned a directory, a later call
\* returns that directory.
C14_CacheLocatorMemoized ==
    (last.op = "resolveOptimizedCacheDir")
    => \A fs \in LaterFiles(last.arg) :
         resolveOptimizedCacheDir(fs, LastSt, last.arg) = Ret(last.res, LastSt)

\* the request is a module reference whose id has a subpath
DeepModuleRequest(publicPath) ==
    /\ moduleRE_test(cleanUrl(publicPath))
    /\ parseNodeModuleId(moduleRE_strip(cleanUrl(publicPath))).inPkgPath # ""

\* C15: the manifest walk terminates.  For every module reference whose id
\* has a subpath, normalizePublicPath ends, returning a path or raising an
\* error, wherever the package manifests are, the top directory included.
C15_ManifestWalkTerminates ==
    (last.op = "normalizePublicPath" /\ DeepModuleRequest(last.arg))
    => last.res # NEVER_RETURNS

\* the alias maps createResolver processes for instance i: the objects of
\* the resolvers, and the user's map with the plugins' merged under it
ProcessedAliasMaps(i) ==
    ResolverAliasMaps(inst[i])
    \cup {ResolvePlugins(config[i].user, config[i].plugins).alias}

\* the alias functions of the resolvers of R, as their graphs
AliasFunctionGraphs(R) ==
    {R.resolvers[n].alias : n \in {k \in DOMAIN R.resolvers : R.resolvers[k].aliasIsFn}}

\* map a defines K as a directory alias whose target is no directory
InvalidDirAlias(i, a, K) ==
    /\ ObjHas(a, K)
    /\ ~IsLiteral(K, ObjGet(a, K))
    /\ ResolvedDir(inst[i].root, ObjGet(a, K)) = NONE

\* K is an invalid directory alias of instance i, in every map that has it,
\* and no alias function answers it
Dropped(i, K) ==
    /\ \E a \in ProcessedAliasMaps(i) : InvalidDirAlias(i, a, K)
    /\ \A a \in ProcessedAliasMaps(i) : ObjHas(a, K) => InvalidDirAlias(i, a, K)
    /\ \A g \in AliasFunctionGraphs(inst[i]) : ~ObjHas(g, K)

\* the key K2 of map a was processed: a literal alias is in literalAlias, a
\* directory alias with a directory as target has its entry and its record
Processed(i, a, K2) ==
    IF IsLiteral(K2, ObjGet(a, K2)) THEN ObjHas(inst[i].literalAlias, K2)
    ELSE ResolvedDir(inst[i].root, ObjGet(a, K2)) # NONE
         => /\ ObjHas(inst[i].literalDirAlias, K2)
            /\ \E k \in DOMAIN inst[i].resolvers :
                 inst[i].resolvers[k]
                   = AliasEntry(K2, ResolvedDir(inst[i].root, ObjGet(a, K2)))

\* the keys of the alias maps of instance i
AliasKeys(i) == UNION {{a[n][1] : n \in DOMAIN a} : a \in ProcessedAliasMaps(i)}

\* C16: an invalid directory alias is dropped without trace.  For a key K
\* that starts and ends with '/' and whose absolute target is no directory,
\* from the root or as given: no entry is registered for K, K is in neither
\* literalDirAlias nor literalAlias, alias(K) is undefined, a request under
\* K that no other entry answers resolves by the default rules, and the
\* other keys of the same map are processed.
C16_InvalidAliasDropped ==
    \A i \in DOMAIN inst : \A K \in AliasKeys(i) :
      Dropped(i, K)
      => /\ \A k \in DOMAIN inst[i].resolvers :
              ~(inst[i].resolvers[k].kind = "alias" /\ inst[i].resolvers[k].key = K)
         /\ ~ObjHas(inst[i].literalDirAlias, K)
         /\ ~ObjHas(inst[i].literalAlias, K)
         /\ alias(inst[i], K) = NONE
         /\ \A a \in ProcessedAliasMaps(i) : \A n \in DOMAIN a :
              (InvalidDirAlias(i, a, K) /\ a[n][1] # K) => Processed(i, a, a[n][1])
         /\ (/\ last.op = "requestToFile"
             /\ last.inst = i
             /\ StartsWith(last.arg, K)
             /\ \A k \in DOMAIN inst[i].resolvers :
                  EntryRequestToFile(inst[i].resolvers[k], last.arg) = NONE)
            => /\ last.res = FuzzyResult(DefaultPlainFile(files, last.arg, inst[i].root))
               /\ last.log[Len(last.log)]
                    \in {<<"default", 0>>, <<"requestToFileCache", 0>>}

\* the user's map { '/@g/': '/nodir', '/@f/': '/d/e', s: '/q' } with /d/e a
\* directory from the root: /@g/ is dropped, a request under it resolves
\* under the root, and /@f/ and s are registered
C16_Witness ==
    /\ last.op = "requestToFile"
    /\ last.arg = "/@g/u.ts"
    /\ ObjGet(config[last.inst].user.alias, "/@g/") = "/nodir"
    /\ Dropped(last.inst, "/@g/")
    /\ last.res = "/p/@g/u.ts"
    /\ ObjGet(LastR.literalDirAlias, "/@f/") = "/p/d/e"
    /\ ObjGet(LastR.literalAlias, "s") = "/q"

\* the state of a process that has made no call yet
FreshSt ==
    [r2f |-> EmptyMap, f2r |-> EmptyMap, idToFile |-> EmptyMap,
     fileToId |-> EmptyMap, optMap |-> EmptyMap, nmMap |-> EmptyMap,
     cdCache |-> EmptyMap, log |-> <<>>]

\* C17: resolution depends only on the root and the path.  The file that
\* requestToFile returns for a module reference is the file a fresh process
\* would return for the resolver's own root, whatever calls any resolver of
\* the process has made before.
C17_RootAndPathOnly ==
    (last.op = "requestToFile" /\ moduleRE_test(last.arg))
    => last.res = requestToFile(files, LastR, FreshSt, last.arg).res
====
